---- MODULE Spec2Model ----
(***************************************************************************)
(* The payment-history lifecycle of sever_exe201: the two Flask            *)
(* applications server.py and server_tri.py, both of which keep every      *)
(* transaction in the one JSON file history.json, read whole by            *)
(* load_history and rewritten whole by write_history.                      *)
(*                                                                         *)
(* Spec       serves one request at a time (each handler runs to its       *)
(*            response before the next request starts).                    *)
(* CreateSpec is Spec's create_payment with every kind of amount.          *)
(* ConcSpec   serves requests on concurrent threads; a handler is split at *)
(*            its accesses to history.json.                                *)
(* LiveSpec   is Spec with a clock that advances and history reads that    *)
(*            keep being served.                                           *)
(***************************************************************************)
EXTENDS Integers, Sequences, FiniteSets, TLC

VARIABLES
    deploy,     \* which WSGI application serves: server.py, server_tri.py or entrypoint.py
    payos,      \* server.py's module global: TRUE when the PayOS client was constructed
    file,       \* the list stored in history.json (<<>> also when the file does not exist)
    torn,       \* TRUE while a write_history has truncated history.json and not yet dumped
    clock,      \* the wall clock, in whole seconds
    issued,     \* number of payment links the provider has handed out
    last,       \* the request served most recently and its response
    pc,         \* ConcSpec: position of each request thread
    req,        \* ConcSpec: the request each thread serves
    base,       \* ConcSpec: the list load_history returned to each thread
    hist        \* ConcSpec: each thread's local `history` list, as the handler changed it

vars == <<deploy, payos, file, torn, clock, issued, last, pc, req, base, hist>>

----------------------------------------------------------------------------
(* Bounds of the model *)

MaxRecords == 2

\* The clock readings the model tells apart: two consecutive seconds, and the
\* two seconds that lie 10 minutes and a second after them (so that a record
\* is seen exactly 10 minutes old and a second older than that).
Instants == {0, 1, 601, 602}

Procs == {1, 2}

----------------------------------------------------------------------------
(* Python values *)

\* None in a slot that otherwise holds a string
None == "None"

\* None in a slot that otherwise holds a tuple-shaped value; also a missing key
Absent == <<>>

\* timedelta(minutes=10), in seconds
ExpiryWindow == 600

\* datetime.isoformat() of a datetime without microseconds: the minute and
\* second fields of 'YYYY-MM-DDTHH:MM:SSZ' (the model's window is one hour)
IsoFormat(t) == <<t \div 60, t % 60>>

\* datetime.fromisoformat(s.rstrip('Z'))
FromIsoFormat(s) == s[1] * 60 + s[2]

Apps == {"server", "tri"}

Deployments == {"server", "tri", "entrypoint"}

\* entrypoint.py mounts server_tri.py's app under /payment, where its routes
\* shadow server.py's /payment/... routes; server.py keeps /create and /history.
AppsServing(d, op) ==
    IF d = "entrypoint"
    THEN IF op \in {"create", "history"} THEN Apps ELSE {"tri"}
    ELSE {d}

STATUS_LABELS(app) ==
    IF app = "server"
    THEN [c \in {"PENDING", "EXPIRED", "SUCCESS", "CANCELED"} |->
            CASE c = "PENDING"  -> "Cho thanh toan"
              [] c = "EXPIRED"  -> "Het han"
              [] c = "SUCCESS"  -> "Thanh toan thanh cong"
              [] c = "CANCELED" -> "Da huy"]
    ELSE [c \in {"PENDING", "SUCCESS", "CANCELED", "FAILED", "EXPIRED"} |->
            CASE c = "PENDING"  -> "Dang thanh toan"
              [] c = "SUCCESS"  -> "Thanh cong"
              [] OTHER          -> "That bai"]

\* STATUS_LABELS.get(code, code)
LabelOrCode(app, code) ==
    IF code \in DOMAIN STATUS_LABELS(app) THEN STATUS_LABELS(app)[code] ELSE code

(* An amount of the request body: <<"none", 0>> no amount, <<"int", n>> the  *)
(* integer n, <<"float", h>> the number h/2, <<"str", 0>> a non-numeric     *)
(* string.                                                                 *)
Truthy(a) ==
    CASE a[1] = "none"  -> FALSE
      [] a[1] = "int"   -> a[2] # 0
      [] a[1] = "float" -> a[2] # 0
      [] OTHER          -> TRUE

\* int(amount) raises for a non-numeric string
IntRaises(a) == a[1] = "str"

\* int(amount): a float is truncated towards zero
ToInt(a) ==
    IF a[1] = "float"
    THEN <<"int", IF a[2] >= 0 THEN a[2] \div 2 ELSE -((-a[2]) \div 2)>>
    ELSE a

----------------------------------------------------------------------------
(* Records of history.json *)

\* server.py: f"ORDER-{int(time.time())}", a str; server_tri.py: the provider's
\* echo of int(time.time()), an int.  text is what str() gives.
OrderCodeOf(app, t) ==
    IF app = "server"
    THEN [type |-> "str", text |-> <<"ORDER-", t>>]
    ELSE [type |-> "int", text |-> <<"", t>>]

\* the provider's paymentLinkId, distinct for every link it hands out
ProviderLink(n) == <<"PL", n>>

\* server.py's fallback without a PayOS client: f"LINK-{order_code}"
StubLink(t) == <<"LINK-ORDER-", t>>

\* the dict appended by create_payment
NewRecord(app, link, oc, amount, now) ==
    [paymentLinkId |-> link,
     orderCode     |-> oc,
     amount        |-> IF app = "server" THEN ToInt(amount) ELSE amount,
     statusCode    |-> "PENDING",
     status        |-> STATUS_LABELS(app)["PENDING"],
     createdAt     |-> IsoFormat(now),
     updatedAt     |-> Absent]

\* the three assignments with updatedAt cut down to the minute
SettleToMinute(app, tx, code, now) ==
    [tx EXCEPT !.statusCode = code,
               !.status     = LabelOrCode(app, code),
               !.updatedAt  = <<now \div 60, 0>>]

\* the three assignments and a fourth one, to createdAt
SettleRestamps(app, tx, code, now) ==
    [tx EXCEPT !.statusCode = code,
               !.status     = LabelOrCode(app, code),
               !.updatedAt  = IsoFormat(now),
               !.createdAt  = IsoFormat(now)]

\* the three assignments every handler makes to the record it settles
Settle(app, tx, code, now) ==
    [tx EXCEPT !.statusCode = code,
               !.status     = LabelOrCode(app, code),
               !.updatedAt  = IsoFormat(now)]

\* the loop's `if` taking the first record whatever its orderCode
MatchesAnyOrder(app, tx, q) == TRUE

\* server.py compares the stored value with the query string; server_tri.py
\* compares str() of both
MatchesOrder(app, tx, q) ==
    IF app = "server"
    THEN tx.orderCode.type = "str" /\ tx.orderCode.text = q
    ELSE tx.orderCode.text = q

\* `for tx in history: if <match>: ...; break` -- of the indices that
\* match, the first; 0 when none matches
FirstIndex(matching) ==
    IF matching = {} THEN 0
    ELSE CHOOSE i \in matching : \A j \in matching : i <= j

\* the loop of payment_success (code "SUCCESS") and payment_cancel ("CANCELED")
MarkOrder(app, h, q, code, now) ==
    LET i == FirstIndex({k \in 1..Len(h) : MatchesOrder(app, h[k], q)})
    IN  IF i = 0 THEN h ELSE [h EXCEPT ![i] = Settle(app, h[i], code, now)]

\* the loop of payment_webhook
WebhookApply(app, h, link, status, now) ==
    LET i == FirstIndex({k \in 1..Len(h) : h[k].paymentLinkId = link})
    IN  IF i = 0 THEN h ELSE [h EXCEPT ![i] = Settle(app, h[i], status, now)]

\* server.py: `if not link_id or not status: return 400`; server_tri.py has no check
WebhookRejects(app, link, status) ==
    app = "server" /\ (link = Absent \/ status = None)

\* the loop body's condition with `>=` written for `>`
StaleAtWindow(tx, now) ==
    /\ tx.statusCode = "PENDING"
    /\ now - FromIsoFormat(tx.createdAt) >= ExpiryWindow

\* the loop body's condition without its test of statusCode
StaleAnyStatus(tx, now) ==
    now - FromIsoFormat(tx.createdAt) > ExpiryWindow

\* the condition of payment_history's loop body
Stale(tx, now) ==
    /\ tx.statusCode = "PENDING"
    /\ now - FromIsoFormat(tx.createdAt) > ExpiryWindow

\* the loop of payment_history
Sweep(app, h, now) ==
    [i \in 1..Len(h) |->
        IF Stale(h[i], now) THEN Settle(app, h[i], "EXPIRED", now) ELSE h[i]]

\* payment_history's flag `dirty` (server.py) / `updated` (server_tri.py)
Dirty(h, now) == \E i \in 1..Len(h) : Stale(h[i], now)

\* server.py: `if not amount: return 400`; server_tri.py has no check
CreateRejects(app, amount) == app = "server" /\ ~Truthy(amount)

\* server.py calls int(amount) outside any try block
CreateRaises(app, amount) == app = "server" /\ IntRaises(amount)

\* server_tri.py: data.get('amount', 5000)
CreateAmount(app, amount) ==
    IF app = "tri" /\ amount[1] = "none" THEN <<"int", 5000>> ELSE amount

\* server.py calls the provider only `if payos:`
CallsProvider(app, ready) == app = "tri" \/ ready

----------------------------------------------------------------------------
(* Requests *)

AmountInputs == {<<"none", 0>>, <<"int", 0>>, <<"int", -5>>, <<"int", 5000>>,
                 <<"float", 3>>, <<"str", 0>>}

\* an orderCode query string no record carries
UnknownOrder == <<"", 7>>

\* a paymentLinkId no record carries
UnknownLink == <<"PL", 0>>

OrderQueries(h) == {h[i].orderCode.text : i \in 1..Len(h)} \cup {UnknownOrder}

StoredLinks(h) == {h[i].paymentLinkId : i \in 1..Len(h)}

\* "PAID" is a status string outside STATUS_LABELS; None is a payload without status
WebhookStatuses == {"SUCCESS", "CANCELED", "FAILED", "PAID", None}

\* the webhook bodies <<paymentLinkId, status>>: every status for every stored
\* link, and a body for an unknown link and one without paymentLinkId
WebhookPayloads(h) ==
    (StoredLinks(h) \X WebhookStatuses) \cup {<<UnknownLink, "SUCCESS">>, <<Absent, "SUCCESS">>}

Request(op, app, amount, q, link, status) ==
    [op |-> op, app |-> app, amount |-> amount, q |-> q, link |-> link,
     status |-> status]

NoRequest == Request("none", "server", <<"none", 0>>, Absent, Absent, None)

\* a request together with the HTTP status code it was answered with; now_iso
\* is the local variable of server_tri.py's create_payment, Absent until set
Served(r, code) ==
    [op |-> r.op, app |-> r.app, amount |-> r.amount, q |-> r.q, link |-> r.link,
     status |-> r.status, code |-> code, now_iso |-> Absent]

Idle == [p \in Procs |-> "idle"]

\* server.py falls back to a stub link when its PayOS client could not be
\* constructed; server_tri.py has no such fallback
PayosStates(d) == IF d = "tri" THEN {TRUE} ELSE BOOLEAN

Init ==
    /\ deploy \in Deployments
    /\ payos \in PayosStates(deploy)
    /\ file = <<>>
    /\ torn = FALSE
    /\ clock = 0
    /\ issued = 0
    /\ last = Served(NoRequest, 0)
    /\ pc = Idle
    /\ req = [p \in Procs |-> Served(NoRequest, 0)]
    /\ base = [p \in Procs |-> <<>>]
    /\ hist = [p \in Procs |-> <<>>]

\* time passes
Tick ==
    /\ \E t \in Instants : t > clock /\ clock' = t
    /\ UNCHANGED <<deploy, payos, file, torn, issued, last, pc, req, base, hist>>

----------------------------------------------------------------------------
(* Spec: one request at a time *)

\* create_payment answering 400 (server.py) or dying of int()'s ValueError
CreateRefused(app, amount) ==
    /\ CreateRejects(app, amount) \/ CreateRaises(app, amount)
    /\ last' = Served(Request("create", app, amount, Absent, Absent, None),
                      IF CreateRejects(app, amount) THEN 400 ELSE 500)
    /\ UNCHANGED <<deploy, payos, file, torn, clock, issued, pc, req, base, hist>>

\* create_payment saving its PENDING record before the provider call that raises
CreateSavedBeforeProvider(app, amount) ==
    /\ ~CreateRejects(app, amount) /\ ~CreateRaises(app, amount)
    /\ CallsProvider(app, payos)
    /\ Len(file) < MaxRecords
    /\ file' = Append(file, NewRecord(app, Absent, OrderCodeOf(app, clock),
                                      CreateAmount(app, amount), clock))
    /\ last' = Served(Request("create", app, amount, Absent, Absent, None), 500)
    /\ UNCHANGED <<deploy, payos, torn, clock, issued, pc, req, base, hist>>

\* create_payment whose provider call raises
CreateProviderError(app, amount) ==
    /\ ~CreateRejects(app, amount) /\ ~CreateRaises(app, amount)
    /\ CallsProvider(app, payos)
    /\ last' = Served(Request("create", app, amount, Absent, Absent, None), 500)
    /\ UNCHANGED <<deploy, payos, file, torn, clock, issued, pc, req, base, hist>>

\* create_payment through to its 200 response
CreateOk(app, amount) ==
    /\ ~CreateRejects(app, amount) /\ ~CreateRaises(app, amount)
    /\ Len(file) < MaxRecords
    /\ LET viaProvider == CallsProvider(app, payos)
           link == IF viaProvider THEN ProviderLink(issued + 1) ELSE StubLink(clock)
           oc   == OrderCodeOf(app, clock)
       IN  /\ issued' = IF viaProvider THEN issued + 1 ELSE issued
           /\ file' = Append(file, NewRecord(app, link, oc, CreateAmount(app, amount), clock))
           /\ last' = Served(Request("create", app, amount, oc.text, link, None), 200)
    /\ UNCHANGED <<deploy, payos, torn, clock, pc, req, base, hist>>

\* payment_success
Success(app, q) ==
    /\ file' = MarkOrder(app, file, q, "SUCCESS", clock)
    /\ last' = Served(Request("success", app, <<"none", 0>>, q, Absent, None),
                      IF app = "server" THEN 302 ELSE 200)
    /\ UNCHANGED <<deploy, payos, torn, clock, issued, pc, req, base, hist>>

\* payment_cancel
Cancel(app, q) ==
    /\ file' = MarkOrder(app, file, q, "CANCELED", clock)
    /\ last' = Served(Request("cancel", app, <<"none", 0>>, q, Absent, None),
                      IF app = "server" THEN 302 ELSE 200)
    /\ UNCHANGED <<deploy, payos, torn, clock, issued, pc, req, base, hist>>

\* payment_webhook
Webhook(app, link, status) ==
    /\ file' = IF WebhookRejects(app, link, status)
               THEN file
               ELSE WebhookApply(app, file, link, status, clock)
    /\ last' = Served(Request("webhook", app, <<"none", 0>>, Absent, link, status),
                      IF WebhookRejects(app, link, status) THEN 400 ELSE 200)
    /\ UNCHANGED <<deploy, payos, torn, clock, issued, pc, req, base, hist>>

\* payment_history
History(app) ==
    /\ file' = IF Dirty(file, clock) THEN Sweep(app, file, clock) ELSE file
    /\ last' = Served(Request("history", app, <<"none", 0>>, Absent, Absent, None), 200)
    /\ UNCHANGED <<deploy, payos, torn, clock, issued, pc, req, base, hist>>

\* the amounts of the requests Spec serves: a valid one
ValidAmounts == {<<"int", 5000>>}

Next ==
    \/ Tick
    \/ \E app \in AppsServing(deploy, "create"), a \in ValidAmounts :
          CreateProviderError(app, a)
    \/ \E app \in AppsServing(deploy, "create"), a \in ValidAmounts :
          CreateOk(app, a)
    \/ \E app \in AppsServing(deploy, "success"), q \in OrderQueries(file) :
          Success(app, q)
    \/ \E app \in AppsServing(deploy, "cancel"), q \in OrderQueries(file) :
          Cancel(app, q)
    \/ \E app \in AppsServing(deploy, "webhook"), w \in WebhookPayloads(file) :
          Webhook(app, w[1], w[2])
    \/ \E app \in AppsServing(deploy, "history") :
          History(app)

Spec == Init /\ [][Next]_vars

----------------------------------------------------------------------------
(* CreateSpec: one request at a time, create_payment with every kind of amount *)

CreateNext ==
    \/ Tick
    \/ \E app \in AppsServing(deploy, "create"), a \in AmountInputs :
          CreateRefused(app, a)
    \/ \E app \in AppsServing(deploy, "create"), a \in AmountInputs :
          CreateProviderError(app, a)
    \/ \E app \in AppsServing(deploy, "create"), a \in AmountInputs :
          CreateOk(app, a)
    \/ \E app \in AppsServing(deploy, "history") :
          History(app)

CreateSpec == Init /\ [][CreateNext]_vars

----------------------------------------------------------------------------
(* ConcSpec: two request threads race on history.json.  Each thread serves  *)
(* one request; the store they start from holds the PENDING records of up   *)
(* to two earlier create requests, made in the seconds 0 and 1.             *)

\* the record of a create request served at second t, the provider's n-th link
Created(app, n, t) ==
    NewRecord(app, ProviderLink(n), OrderCodeOf(app, t), <<"int", 5000>>, t)

StoresAtStart(d) ==
    {<<>>}
    \cup {<<Created(a, 1, 0)>> : a \in AppsServing(d, "create")}
    \cup {<<Created(a, 1, 0), Created(b, 2, 1)>> :
            a \in AppsServing(d, "create"), b \in AppsServing(d, "create")}

ConcInit ==
    /\ deploy \in Deployments
    /\ payos = TRUE
    /\ file \in StoresAtStart(deploy)
    /\ torn = FALSE
    /\ clock = 1
    /\ issued = Len(file)
    /\ last = Served(NoRequest, 0)
    /\ pc = Idle
    /\ req = [p \in Procs |-> Served(NoRequest, 0)]
    /\ base = [p \in Procs |-> <<>>]
    /\ hist = [p \in Procs |-> <<>>]

\* the requests a thread may be handed
ConcRequests(d, h) ==
    {Request("create", app, a, Absent, Absent, None) :
        app \in AppsServing(d, "create"), a \in ValidAmounts}
    \cup {Request("success", app, <<"none", 0>>, q, Absent, None) :
        app \in AppsServing(d, "success"), q \in OrderQueries(h)}
    \cup {Request("cancel", app, <<"none", 0>>, q, Absent, None) :
        app \in AppsServing(d, "cancel"), q \in OrderQueries(h)}
    \cup {Request("webhook", app, <<"none", 0>>, Absent, l, "SUCCESS") :
        app \in AppsServing(d, "webhook"), l \in StoredLinks(h) \cup {Absent}}
    \cup {Request("history", app, <<"none", 0>>, Absent, Absent, None) :
        app \in AppsServing(d, "history")}

\* the status code of the response a handler sends when it runs to its end
FinalCode(r) ==
    IF r.app = "server" /\ r.op \in {"success", "cancel"} THEN 302 ELSE 200

\* what the handler does to the list load_history returned, before
\* write_history; server.py's create_payment reads the clock for createdAt
\* after load_history, server_tri.py's has read it before
Modified(r, h, now) ==
    CASE r.op = "create"  ->
            Append(h, NewRecord(r.app, r.link, OrderCodeOf(r.app, r.q[2]),
                                CreateAmount(r.app, r.amount),
                                IF r.app = "tri" THEN r.now_iso[1] ELSE now))
      [] r.op = "success" -> MarkOrder(r.app, h, r.q, "SUCCESS", now)
      [] r.op = "cancel"  -> MarkOrder(r.app, h, r.q, "CANCELED", now)
      [] r.op = "webhook" -> WebhookApply(r.app, h, r.link, r.status, now)
      [] OTHER            -> Sweep(r.app, h, now)

\* payment_history calling write_history whether or not `dirty` is set
WritesAlways(r, h, now) == TRUE

\* payment_history writes only `if dirty:`; every other handler always writes
Writes(r, h, now) == r.op # "history" \/ Dirty(h, now)

\* the checks a handler makes before it touches history.json
RefusedBeforeLoad(r) ==
    \/ r.op = "create" /\ (CreateRejects(r.app, r.amount) \/ CreateRaises(r.app, r.amount))
    \/ r.op = "webhook" /\ WebhookRejects(r.app, r.link, r.status)

\* a handler returns 400 before load_history
Refuse(p, r) ==
    /\ pc[p] = "idle"
    /\ RefusedBeforeLoad(r)
    /\ pc' = [pc EXCEPT ![p] = "done"]
    /\ req' = [req EXCEPT ![p] =
                 Served(r, IF r.op = "create" /\ ~CreateRejects(r.app, r.amount)
                           THEN 500 ELSE 400)]
    /\ UNCHANGED <<deploy, payos, file, torn, clock, issued, last, base, hist>>

\* create_payment's provider call raises
ProviderFails(p, r) ==
    /\ pc[p] = "idle"
    /\ r.op = "create" /\ ~RefusedBeforeLoad(r) /\ CallsProvider(r.app, payos)
    /\ pc' = [pc EXCEPT ![p] = "done"]
    /\ req' = [req EXCEPT ![p] = Served(r, 500)]
    /\ UNCHANGED <<deploy, payos, file, torn, clock, issued, last, base, hist>>

\* a handler up to, not including, its load_history call; create_payment has
\* taken its order code from the clock and has the provider's link
Begin(p, r) ==
    /\ pc[p] = "idle"
    /\ ~RefusedBeforeLoad(r)
    /\ IF r.op = "create"
       THEN /\ issued < MaxRecords
            /\ LET viaProvider == CallsProvider(r.app, payos)
               IN  /\ issued' = IF viaProvider THEN issued + 1 ELSE issued
                   /\ req' = [req EXCEPT ![p] =
                        Served([r EXCEPT !.q = OrderCodeOf(r.app, clock).text,
                                         !.link = IF viaProvider
                                                  THEN ProviderLink(issued + 1)
                                                  ELSE StubLink(clock)], 0)]
       ELSE /\ issued' = issued
            /\ req' = [req EXCEPT ![p] = Served(r, 0)]
    /\ pc' = [pc EXCEPT ![p] = IF r.op = "create" /\ r.app = "tri"
                               THEN "stamp" ELSE "load"]
    /\ UNCHANGED <<deploy, payos, file, torn, clock, last, base, hist>>

\* server_tri.py's create_payment reads the clock into now_iso, after the
\* provider call and before load_history
Stamp(p) ==
    /\ pc[p] = "stamp"
    /\ req' = [req EXCEPT ![p].now_iso = <<clock>>]
    /\ pc' = [pc EXCEPT ![p] = "load"]
    /\ UNCHANGED <<deploy, payos, file, torn, clock, issued, last, base, hist>>

\* load_history while history.json is truncated or garbled: json.load raises
LoadFails(p) ==
    /\ pc[p] = "load"
    /\ torn
    /\ pc' = [pc EXCEPT ![p] = "done"]
    /\ req' = [req EXCEPT ![p].code = 500]
    /\ UNCHANGED <<deploy, payos, file, torn, clock, issued, last, base, hist>>

\* load_history and the handler's changes to the list it returned
Load(p) ==
    /\ pc[p] = "load"
    /\ ~torn
    /\ base' = [base EXCEPT ![p] = file]
    /\ hist' = [hist EXCEPT ![p] = Modified(req[p], file, clock)]
    /\ IF Writes(req[p], file, clock)
       THEN /\ pc' = [pc EXCEPT ![p] = "write"]
            /\ req' = req
       ELSE /\ pc' = [pc EXCEPT ![p] = "done"]
            /\ req' = [req EXCEPT ![p].code = FinalCode(req[p])]
    /\ UNCHANGED <<deploy, payos, file, torn, clock, issued, last>>

\* write_history: open(HISTORY_FILE, 'w') empties the file
Truncate(p) ==
    /\ pc[p] = "write"
    /\ torn' = TRUE
    /\ pc' = [pc EXCEPT ![p] = "dump"]
    /\ UNCHANGED <<deploy, payos, file, clock, issued, last, req, base, hist>>

\* the threads whose open file another thread's dump has just written under
Overlapped(p) ==
    [q \in Procs |->
        IF q = p THEN "done"
        ELSE IF pc[q] = "dump" THEN "dump_over" ELSE pc[q]]

\* write_history: json.dump and close, then the handler's response
Dump(p) ==
    /\ pc[p] = "dump"
    /\ file' = hist[p]
    /\ torn' = FALSE
    /\ pc' = Overlapped(p)
    /\ req' = [req EXCEPT ![p].code = FinalCode(req[p])]
    /\ UNCHANGED <<deploy, payos, clock, issued, last, base, hist>>

\* json.dump from offset 0 over what another thread dumped meanwhile: the
\* file holds this thread's list, or, when that is the shorter text, this
\* thread's text followed by the rest of the other's, which is no JSON
DumpOver(p) ==
    /\ pc[p] = "dump_over"
    /\ file' = hist[p]
    /\ torn' \in BOOLEAN
    /\ pc' = Overlapped(p)
    /\ req' = [req EXCEPT ![p].code = FinalCode(req[p])]
    /\ UNCHANGED <<deploy, payos, clock, issued, last, base, hist>>

ConcNext ==
    \/ Tick
    \/ \E p \in Procs, r \in ConcRequests(deploy, file) : Refuse(p, r)
    \/ \E p \in Procs, r \in ConcRequests(deploy, file) : ProviderFails(p, r)
    \/ \E p \in Procs, r \in ConcRequests(deploy, file) : Begin(p, r)
    \/ \E p \in Procs : Stamp(p)
    \/ \E p \in Procs : LoadFails(p)
    \/ \E p \in Procs : Load(p)
    \/ \E p \in Procs : Truncate(p)
    \/ \E p \in Procs : Dump(p)
    \/ \E p \in Procs : DumpOver(p)

ConcSpec == ConcInit /\ [][ConcNext]_vars

----------------------------------------------------------------------------
(* The claims *)

Terminal == {"SUCCESS", "CANCELED", "EXPIRED", "FAILED"}

\* the step just taken served a request (time did not pass), which last' describes
Serves(op) == clock' = clock /\ last'.op = op

\* seconds between the record's createdAt and the clock
Age(tx) == clock - (tx.createdAt[1] * 60 + tx.createdAt[2])

\* C1: once a record's statusCode is SUCCESS, CANCELED, EXPIRED or FAILED, no
\* webhook, redirect or history read changes it to another value.
C1_TerminalSticky ==
    [][\A i \in 1..Len(file) :
          file[i].statusCode \in Terminal
          => i <= Len(file') /\ file'[i].statusCode = file[i].statusCode]_vars

\* thread p completes its write_history in this step
Dumps(p) == pc[p] \in {"dump", "dump_over"} /\ pc'[p] = "done"

\* thread p and another thread q settle record i, one by a SUCCESS webhook
\* and one by a cancel redirect; both loaded the record while it was PENDING,
\* and q has already written its status
LostRace(p, i) ==
    \E q \in Procs \ {p} :
       /\ {req[p].op, req[q].op} = {"webhook", "cancel"}
       /\ i <= Len(base[p]) /\ i <= Len(base[q])
       /\ base[p][i].statusCode = "PENDING" /\ base[q][i].statusCode = "PENDING"
       /\ hist[p][i].statusCode \in Terminal /\ hist[q][i].statusCode \in Terminal
       /\ pc[q] = "done"
       /\ file[i] = hist[q][i]

\* C2: of a SUCCESS webhook and a cancel redirect racing for one PENDING
\* record exactly one changes the record: the write of the handler that
\* comes second is discarded, whatever the interleaving.
C2_RaceHasOneWinner ==
    [][\A p \in Procs : \A i \in 1..Len(file) :
          Dumps(p) /\ LostRace(p, i) => ~torn' /\ file'[i] = file[i]]_vars

\* C3: a webhook delivered a second time, right after its first delivery was
\* answered 200, is answered without an error and leaves the store as the
\* first delivery left it.
C3_WebhookIdempotent ==
    [][(/\ Serves("webhook")
        /\ last.op = "webhook" /\ last.code = 200
        /\ last'.app = last.app /\ last'.link = last.link /\ last'.status = last.status)
       => last'.code = 200 /\ file' = file]_vars

\* C4: a history read turns a PENDING record into EXPIRED exactly when the
\* record is more than 10 minutes old; it does so for every such record, and
\* leaves the statusCode of every other record as it was.
C4_ExpiryThreshold ==
    [][Serves("history")
       => /\ Len(file') = Len(file)
          /\ \A i \in 1..Len(file) :
                IF file[i].statusCode = "PENDING" /\ Age(file[i]) > ExpiryWindow
                THEN file'[i].statusCode = "EXPIRED"
                ELSE file'[i].statusCode = file[i].statusCode]_vars

\* a history read has just expired one record and kept another, which is
\* exactly 10 minutes old, PENDING
C4_Witness ==
    /\ last.op = "history"
    /\ \E i \in 1..Len(file) :
          /\ file[i].statusCode = "EXPIRED"
          /\ file[i].updatedAt = IsoFormat(clock)
          /\ Age(file[i]) = ExpiryWindow + 1
    /\ \E j \in 1..Len(file) :
          file[j].statusCode = "PENDING" /\ Age(file[j]) = ExpiryWindow

\* C5: a history read leaves statusCode, status label and updatedAt of every
\* record that is not PENDING as they were, however old the record is.
C5_SweepKeepsSettled ==
    [][Serves("history")
       => \A i \in 1..Len(file) :
             file[i].statusCode # "PENDING"
             => /\ i <= Len(file')
                /\ file'[i].statusCode = file[i].statusCode
                /\ file'[i].status = file[i].status
                /\ file'[i].updatedAt = file[i].updatedAt]_vars

\* a history read has just expired one record, and the store holds a SUCCESS
\* record older than 10 minutes that was settled before
C5_Witness ==
    /\ last.op = "history"
    /\ \E i \in 1..Len(file) :
          file[i].statusCode = "EXPIRED" /\ file[i].updatedAt = IsoFormat(clock)
    /\ \E j \in 1..Len(file) :
          /\ file[j].statusCode = "SUCCESS"
          /\ Age(file[j]) > ExpiryWindow
          /\ file[j].updatedAt # IsoFormat(clock)

\* the amount is an integer greater than 0
PositiveInteger(a) == a[1] = "int" /\ a[2] > 0

\* C6: a create request whose amount is missing, 0, negative or no integer is
\* answered 400 and adds no record to the store.
C6_InvalidAmountRejected ==
    [][Serves("create") /\ ~PositiveInteger(last'.amount)
       => last'.code = 400 /\ file' = file]_vars

\* C7: a create request whose provider call fails is answered with an error
\* and leaves the store exactly as it was.
C7_ProviderFailureNoWrite ==
    [][(/\ Serves("create")
        /\ ~CreateRejects(last'.app, last'.amount)
        /\ ~CreateRaises(last'.app, last'.amount)
        /\ last'.code # 200)
       => last'.code = 500 /\ file' = file]_vars

\* a create request with a valid amount was answered 500 while the store
\* holds a record
C7_Witness ==
    /\ last.op = "create" /\ last.code = 500
    /\ PositiveInteger(last.amount)
    /\ Len(file) > 0

\* C8: a create request that was answered 200 has exactly one record in the
\* store, PENDING or settled since, with the paymentLinkId and orderCode of
\* the response, also when other requests run concurrently.
C8_CreatedExactlyOnce ==
    \A p \in Procs :
       (pc[p] = "done" /\ req[p].op = "create" /\ req[p].code = 200 /\ ~torn)
       => Cardinality({i \in 1..Len(file) :
                          /\ file[i].paymentLinkId = req[p].link
                          /\ file[i].orderCode.text = req[p].q}) = 1

\* C9: no two records of the store have the same orderCode.
C9_UniqueOrderCodes ==
    \A i \in 1..Len(file) : \A j \in 1..Len(file) :
       i # j => file[i].orderCode # file[j].orderCode

\* C10: a webhook whose body lacks paymentLinkId or status is answered 400
\* and changes no record.
C10_MalformedWebhookRejected ==
    [][Serves("webhook") /\ (last'.link = Absent \/ last'.status = None)
       => last'.code = 400 /\ file' = file]_vars

\* the statusCode values of the data model
KnownStatuses == {"PENDING"} \cup Terminal

\* C11: a webhook with a status string outside the known values, for a
\* PENDING record, sets the record's statusCode to FAILED; and no step leaves
\* a record with a statusCode other than PENDING, SUCCESS, CANCELED, EXPIRED
\* or FAILED.
C11_UnknownStatusFails ==
    [][/\ (Serves("webhook") /\ last'.status \notin KnownStatuses /\ last'.code = 200)
          => \A i \in 1..Len(file) :
                (file[i].statusCode = "PENDING" /\ file[i].paymentLinkId = last'.link)
                => file'[i].statusCode = "FAILED"
       /\ \A i \in 1..Len(file') : file'[i].statusCode \in KnownStatuses]_vars

\* the request just served carried a correlation key that no record of the
\* store matches, and passed the handler's validation
UnknownKey ==
    \/ /\ last'.op \in {"success", "cancel"}
       /\ \A i \in 1..Len(file) : file[i].orderCode.text # last'.q
    \/ /\ last'.op = "webhook"
       /\ last'.link # Absent /\ last'.status # None
       /\ \A i \in 1..Len(file) : file[i].paymentLinkId # last'.link

\* C12: a redirect whose orderCode, or a well-formed webhook whose
\* paymentLinkId, matches no record leaves the store as it was and is answered
\* with a redirect (302) or 200.
C12_UnknownKeyAbsorbed ==
    [][(clock' = clock /\ UnknownKey) => file' = file /\ last'.code \in {200, 302}]_vars

\* a redirect or webhook with an unknown key was answered while the store
\* holds a PENDING record
C12_Witness ==
    /\ last.op \in {"success", "cancel", "webhook"}
    /\ last.q = UnknownOrder \/ last.link = UnknownLink
    /\ last.code \in {200, 302}
    /\ \E i \in 1..Len(file) : file[i].statusCode = "PENDING"

\* record tx, identified by the keys create gave it, is in the list h
Holds(h, tx) ==
    \E j \in 1..Len(h) :
       h[j].paymentLinkId = tx.paymentLinkId /\ h[j].orderCode = tx.orderCode

\* C13: every record of the store is still a record of the store after any
\* step of any thread that leaves history.json complete: no write_history
\* removes a record.
C13_AppendOnly ==
    [][~torn' => \A i \in 1..Len(file) : Holds(file', file[i])]_vars

----------------------------------------------------------------------------
(* LiveSpec: one request at a time, with time that advances and history     *)
(* reads that keep being served.                                            *)

\* the model's clock can still run past the expiry window of a record created now
CanStillExpire == \E t \in Instants : t - clock > ExpiryWindow

\* create_payment, served while the model can still watch the record expire
EarlyCreate(app, amount) == CanStillExpire /\ CreateOk(app, amount)

\* some application serves a history read
HistoryRead == \E app \in AppsServing(deploy, "history") : History(app)

LiveNext ==
    \/ Tick
    \/ \E app \in AppsServing(deploy, "create"), a \in ValidAmounts :
          EarlyCreate(app, a)
    \/ \E app \in AppsServing(deploy, "success"), q \in OrderQueries(file) :
          Success(app, q)
    \/ \E app \in AppsServing(deploy, "cancel"), q \in OrderQueries(file) :
          Cancel(app, q)
    \/ \E app \in AppsServing(deploy, "webhook"), w \in WebhookPayloads(file) :
          Webhook(app, w[1], w[2])
    \/ HistoryRead

LiveSpec == Init /\ [][LiveNext]_vars /\ WF_vars(Tick) /\ WF_vars(HistoryRead)

\* C14: with time advancing and history reads recurring, every record of the
\* store eventually has a terminal statusCode (SUCCESS, CANCELED, EXPIRED or
\* FAILED), whether or not a webhook or redirect arrives for it.
C14_EventuallyTerminal ==
    \A i \in 1..MaxRecords :
       [](Len(file) >= i => <>(Len(file) >= i /\ file[i].statusCode \in Terminal))

----------------------------------------------------------------------------

\* C15: a record's updatedAt, whenever it is set, is not earlier than the
\* record's createdAt.
C15_UpdatedNotBeforeCreated ==
    \A i \in 1..Len(file) :
       file[i].updatedAt # Absent
       => FromIsoFormat(file[i].updatedAt) >= FromIsoFormat(file[i].createdAt)

\* a record settled in a later second than the one it was created in, and a
\* record settled in the second of its creation
C15_Witness ==
    /\ \E i \in 1..Len(file) :
          /\ file[i].updatedAt # Absent
          /\ FromIsoFormat(file[i].updatedAt) > FromIsoFormat(file[i].createdAt)
    /\ \E j \in 1..Len(file) :
          file[j].updatedAt # Absent /\ file[j].updatedAt = file[j].createdAt

\* the fields create_payment writes and no other handler assigns
CreationFields(tx) == <<tx.amount, tx.createdAt, tx.orderCode, tx.paymentLinkId>>

\* C16: a webhook, success redirect, cancel redirect or history read leaves
\* the number of records, and amount, createdAt, orderCode and paymentLinkId
\* of every record, as they were.
C16_CreationFieldsKept ==
    [][(clock' = clock /\ last'.op \in {"webhook", "success", "cancel", "history"})
       => /\ Len(file') = Len(file)
          /\ \A i \in 1..Len(file) :
                CreationFields(file'[i]) = CreationFields(file[i])]_vars

\* a webhook, redirect or history read has just changed a record that was
\* created in an earlier second
C16_Witness ==
    /\ last.op \in {"webhook", "success", "cancel", "history"}
    /\ \E i \in 1..Len(file) :
          /\ file[i].updatedAt = IsoFormat(clock)
          /\ file[i].createdAt # IsoFormat(clock)
          /\ file[i].statusCode # "PENDING"

\* C17: the records of the store, which a history read returns in the order
\* stored, are in nondecreasing order of createdAt, whatever the sequence and
\* interleaving of the create requests that stored them.
C17_CreationOrder ==
    \A i \in 1..Len(file) : \A j \in 1..Len(file) :
       i < j => FromIsoFormat(file[i].createdAt) <= FromIsoFormat(file[j].createdAt)

\* thread p serves a history read that loaded record i as a stale PENDING
\* record, and the store now holds the status another request settled it with
SweepConflict(p, i) ==
    /\ req[p].op = "history"
    /\ i <= Len(base[p]) /\ i <= Len(file)
    /\ base[p][i].statusCode = "PENDING"
    /\ hist[p][i].statusCode = "EXPIRED"
    /\ Holds(<<base[p][i]>>, file[i])
    /\ file[i].statusCode \in Terminal \ {"EXPIRED"}

\* C18: when a history read completes its write after a webhook or redirect
\* has settled a record that the read loaded as stale PENDING, the record
\* keeps the settled status.
C18_SweepKeepsConcurrentSettle ==
    [][\A p \in Procs : \A i \in 1..Len(file) :
          (Dumps(p) /\ SweepConflict(p, i) /\ ~torn')
          => i <= Len(file') /\ file'[i].statusCode = file[i].statusCode]_vars

\* thread p has returned from a webhook or redirect that settled, in the list
\* it had loaded, the PENDING record with the keys of tx
Settled(p, tx) ==
    /\ pc[p] = "done"
    /\ req[p].op \in {"webhook", "success", "cancel"}
    /\ req[p].code \in {200, 302}
    /\ \E k \in 1..Len(base[p]) :
          /\ Holds(<<base[p][k]>>, tx)
          /\ base[p][k].statusCode = "PENDING"
          /\ hist[p][k].statusCode = tx.statusCode
          /\ tx.statusCode \in Terminal

\* C19: once two concurrent status-changing requests for two different
\* records have both returned, the store shows both transitions.
C19_BothTransitionsStored ==
    \A p \in Procs : \A q \in Procs \ {p} :
       \A i \in 1..Len(hist[p]) : \A j \in 1..Len(hist[q]) :
          (/\ ~torn
           /\ ~Holds(<<hist[p][i]>>, hist[q][j])
           /\ Settled(p, hist[p][i]) /\ Settled(q, hist[q][j]))
          => /\ \E k \in 1..Len(file) :
                   Holds(<<file[k]>>, hist[p][i])
                   /\ file[k].statusCode = hist[p][i].statusCode
             /\ \E k \in 1..Len(file) :
                   Holds(<<file[k]>>, hist[q][j])
                   /\ file[k].statusCode = hist[q][j].statusCode

\* the request served in this step is a status-changing request for record
\* tx: a webhook with a settling status and tx's paymentLinkId, or a redirect
\* with tx's orderCode
Addresses(tx) ==
    /\ clock' = clock
    /\ \/ /\ last'.op = "webhook"
          /\ last'.status \in {"SUCCESS", "CANCELED", "FAILED"}
          /\ last'.link = tx.paymentLinkId
       \/ /\ last'.op \in {"success", "cancel"}
          /\ last'.q = tx.orderCode.text

\* the status that request carries
Incoming ==
    CASE last'.op = "success" -> "SUCCESS"
      [] last'.op = "cancel"  -> "CANCELED"
      [] OTHER                -> last'.status

\* C20: a webhook with status SUCCESS, CANCELED or FAILED, a success
\* redirect and a cancel redirect set the statusCode of the PENDING record
\* they are for to that status (SUCCESS and CANCELED for the redirects) and
\* its updatedAt to the time of the request.
C20_PendingAcceptsIncoming ==
    [][\A i \in 1..Len(file) :
          (file[i].statusCode = "PENDING" /\ Addresses(file[i]))
          => /\ i <= Len(file')
             /\ file'[i].statusCode = Incoming
             /\ file'[i].updatedAt = IsoFormat(clock)]_vars

\* thread p's history read loaded record i as a PENDING record and expired it
Expired(p, i) ==
    base[p][i].statusCode = "PENDING" /\ hist[p][i].statusCode = "EXPIRED"

\* C21: a history read whose load_history finds no PENDING record older than
\* 10 minutes returns 200 without touching history.json; a history read
\* truncates or dumps the file only when it has expired a record of the list
\* it loaded.
C21_CleanReadWritesNothing ==
    [][\A p \in Procs :
          req[p].op = "history"
          => /\ (pc[p] = "load" /\ pc'[p] # "load" /\ ~torn /\ ~Dirty(file, clock))
                => /\ pc'[p] = "done" /\ req'[p].code = 200
                   /\ file' = file /\ torn' = torn
             /\ (pc[p] \in {"write", "dump", "dump_over"} /\ pc'[p] # pc[p])
                => \E i \in 1..Len(base[p]) : Expired(p, i)]_vars

\* a history read that loaded a PENDING record and found nothing stale has
\* returned while another thread, which loaded the same list, is between the
\* truncation and the dump of its write_history
C21_Witness ==
    \E p \in Procs : \E q \in Procs \ {p} :
       /\ req[p].op = "history" /\ pc[p] = "done" /\ req[p].code = 200
       /\ hist[p] = base[p]
       /\ \E i \in 1..Len(base[p]) : base[p][i].statusCode = "PENDING"
       /\ pc[q] = "dump" /\ base[q] = base[p] /\ hist[q] # base[q]

\* C22: every load_history call returns a complete list that is the content
\* of history.json: no handler reads the file while a write_history has
\* truncated it or left it garbled, and none fails because of that.
C22_LoadNeverTorn ==
    [][\A p \in Procs :
          (pc[p] = "load" /\ pc'[p] # "load")
          => ~torn /\ base'[p] = file /\ req'[p].code # 500]_vars

====
